---- MODULE Spec2Model ----
(***************************************************************************)
(* Norm-compliance engine of backend.py: norm compilation into graph       *)
(* queries, their execution against the graph store, and the run           *)
(* orchestration of run_analysis_from_request.                             *)
(*                                                                         *)
(* A query is modelled by (a) the clause skeleton of its text, which the   *)
(* store parses, (b) the parameter names its text references and the       *)
(* binding map sent with it, and (c) the rows it matches on the graph.     *)
(* A NULL of the query language is the empty set, a value v is {v}.        *)
(***************************************************************************)
EXTENDS Integers, Sequences, FiniteSets, TLC

VARIABLES
    db,        \* the graph store: nodes and edges this core creates
    pc,        \* position inside run_analysis_from_request / parse_and_run_norms
    req,       \* the request of the current invocation
    run_id,    \* run_id generated for the current invocation
    idx,       \* index of the norm being processed (persist loop and norm loop)
    cur,       \* per-norm locals of run_analysis: params, agg_results
    status,    \* local variable status of run_analysis_from_request
    reports,   \* local variable reports of run_analysis_from_request
    norm_reports, \* list reports built inside parse_and_run_norms
    driver,    \* "none" | "open" | "closed"
    qlog,      \* queries issued by the current invocation, in order
    hist,      \* history of the current invocation: writes to the run node
    faults,    \* store rejections and connection failures injected so far
    invocations \* invocations started so far

vars == <<db, pc, req, run_id, idx, cur, status, reports, norm_reports, driver, qlog,
          hist, faults, invocations>>

-----------------------------------------------------------------------------
(* Bounds *)

MaxInvocations == 2
MaxNorms == 2
MaxFaults == 1
MaxFilters == 2
MaxGrouping == 2

-----------------------------------------------------------------------------
(* The event graph the norms are evaluated on (never written by this core) *)

Subjects == {"e1", "e2", "e3", "e4", "o1", "o2", "o3"}

\* label, type (activity_property / entity_filter_property), timestamp_property,
\* inline properties and HAS_ATTRIBUTE attribute nodes as <<name, value>> pairs
Graph ==
    [s \in Subjects |->
        CASE s = "e1" -> [label |-> "Event", type |-> "A", time |-> {1},
                          props |-> {<<"prio", 1>>}, attrs |-> {}]
          [] s = "e2" -> [label |-> "Event", type |-> "B", time |-> {3},
                          props |-> {<<"prio", 2>>}, attrs |-> {}]
          [] s = "e3" -> [label |-> "Event", type |-> "A", time |-> {5},
                          props |-> {}, attrs |-> {<<"prio", 2>>}]
          [] s = "e4" -> [label |-> "Event", type |-> "B", time |-> {6},
                          props |-> {}, attrs |-> {}]
          [] s = "o1" -> [label |-> "Entity", type |-> "Order", time |-> {},
                          props |-> {<<"amount", 3>>, <<"prio", 1>>}, attrs |-> {}]
          [] s = "o2" -> [label |-> "Entity", type |-> "Order", time |-> {},
                          props |-> {<<"prio", 2>>}, attrs |-> {<<"amount", 3>>}]
          [] OTHER    -> [label |-> "Entity", type |-> "Item", time |-> {},
                          props |-> {}, attrs |-> {}]]

DF == {<<"e1", "e2">>, <<"e3", "e4">>}
CORR == {<<"e1", "o1">>, <<"e2", "o1">>, <<"e3", "o2">>}
DF_ENTITY == {<<"o1", "o3">>}

\* n.`prop` : NULL ({}) when the node has no such inline property
InlineValue(s, prop) == {p[2] : p \in {q \in Graph[s].props : q[1] = prop}}

\* (n)-[:HAS_ATTRIBUTE]->(attr:Attribute {name: prop}) : the attribute nodes reached
AttributeNodes(s, prop) == {q \in Graph[s].attrs : q[1] = prop}

-----------------------------------------------------------------------------
(* Dictionaries *)

Has(d, k) == k \in DOMAIN d

\* Python truthiness of d.get(k) for a string-valued key
Truthy(d, k) == Has(d, k) /\ d[k] # ""

Get(d, k, default) == IF Has(d, k) THEN d[k] ELSE default

\* the global CONFIG, for the one name whose choice the stored run nodes show
CONFIG == [analysis_run_node_label |-> "AnalysisRun"]

\* config.update(json_config) on CONFIG.copy(): the request's entries win
EffectiveConfig(data) == Get(data, "config", <<>>) @@ CONFIG

\* the config parse_and_run_norms hands to run_analysis in the current invocation
config == EffectiveConfig(req)

\* comparison operators of the query language on non-null integers;
\* IN / NOT IN take a list (here a set) on the right
Compare(op, a, b) ==
    CASE op = "="      -> a = b
      [] op = "<>"     -> a # b
      [] op = ">"      -> a > b
      [] op = "<"      -> a < b
      [] op = ">="     -> a >= b
      [] op = "<="     -> a <= b
      [] op = "IN"     -> a \in b
      [] op = "NOT IN" -> a \notin b

\* op_map of the string/number filters and of PropertyValueNorm
OpMap ==
    [o \in {"==", "!=", ">", "<", ">=", "<=", "in", "not in"} |->
        CASE o = "==" -> "=" [] o = "!=" -> "<>" [] o = "in" -> "IN"
          [] o = "not in" -> "NOT IN" [] OTHER -> o]

\* op_map of the datetime filters
DatetimeOpMap == [o \in {"before", "after"} |-> IF o = "before" THEN "<" ELSE ">"]

\* a prefix that does not carry the position of the filter
ParamPrefixShared(i) == "exec_filter"

\* f"exec_filter_{i}", f"attr_{i}" (i is 0-based in the code, 1-based here)
ParamPrefix(i) ==
    <<"exec_filter_0", "exec_filter_1", "exec_filter_2", "exec_filter_3">>[i]

ParamStart(i) ==
    <<"exec_filter_0_start", "exec_filter_1_start", "exec_filter_2_start",
      "exec_filter_3_start">>[i]

ParamEnd(i) ==
    <<"exec_filter_0_end", "exec_filter_1_end", "exec_filter_2_end",
      "exec_filter_3_end">>[i]

RECURSIVE Flatten(_)
Flatten(ss) == IF ss = <<>> THEN <<>> ELSE Head(ss) \o Flatten(Tail(ss))

\* dict.update over a list of dicts: later entries win
RECURSIVE MergeAll(_)
MergeAll(ds) == IF ds = <<>> THEN <<>> ELSE MergeAll(Tail(ds)) @@ Head(ds)

-----------------------------------------------------------------------------
(* Filter Clause Compiler *)

\* A compiled predicate: which value it reads (inline property of the alias, or
\* the value of attribute node attr_i), the comparison and the bound names.
Predicate(storage, prop, i, shape, op, pnames) ==
    [storage |-> storage, prop |-> prop, idx |-> i, shape |-> shape, op |-> op,
     pnames |-> pnames]

NoClause == [clause |-> <<>>, params |-> <<>>]

\* the subscripts of the filter dict that raise KeyError when the key is missing
FilterKeyError(f) ==
    \/ ~Has(f, "property_name")
    \/ ~Has(f, "property_operator")
    \/ ~Has(f, "property_value")
    \/ /\ Get(f, "attributeStorage", "property") # "node"
       /\ Get(f, "property_data_type", "string") = "datetime"
       /\ f.property_operator = "between"
       /\ ~Has(f, "property_value_end")

\* ProcessNorm._build_single_filter_expression; i is the position of the filter
build_single_filter_expression(f, i) ==
    LET operator == f.property_operator
        value == f.property_value
        data_type == Get(f, "property_data_type", "string")
    IN  IF data_type = "datetime"
        THEN IF operator = "between"
             THEN [clause |-> <<Predicate("property", f.property_name, i, "between",
                                          "between", <<ParamStart(i), ParamEnd(i)>>)>>,
                   params |-> (ParamStart(i) :> value) @@
                              (ParamEnd(i) :> f.property_value_end)]
             ELSE IF operator \in DOMAIN DatetimeOpMap
             THEN [clause |-> <<Predicate("property", f.property_name, i, "datetime",
                                          DatetimeOpMap[operator], <<ParamPrefix(i)>>)>>,
                   params |-> (ParamPrefix(i) :> value)]
             ELSE NoClause
        ELSE IF operator \in DOMAIN OpMap
             THEN [clause |-> <<Predicate("property", f.property_name, i, "notnull_cmp",
                                          OpMap[operator], <<ParamPrefix(i)>>)>>,
                   params |-> (ParamPrefix(i) :> value)]
             ELSE NoClause

\* one iteration of the loop of _build_filter_clause:
\* the MATCH it adds, the clause it adds and the parameters it binds
FilterEntry(f, i) ==
    IF Get(f, "attributeStorage", "property") = "node"
    THEN LET bound == f.property_operator \in DOMAIN OpMap
         IN  [match  |-> <<[idx |-> i, prop |-> f.property_name]>>,
              clause |-> IF bound
                         THEN <<Predicate("node", f.property_name, i, "notnull_cmp",
                                          OpMap[f.property_operator], <<ParamPrefix(i)>>)>>
                         ELSE <<>>,
              params |-> IF bound THEN (ParamPrefix(i) :> f.property_value) ELSE <<>>]
    ELSE LET r == build_single_filter_expression(f, i)
         IN  [match |-> <<>>, clause |-> r.clause, params |-> r.params]

\* " AND ".join(all_clauses) behind WHERE, as clause skeleton
WhereTokens(n) ==
    <<"WHERE", "expr">> \o Flatten([k \in 1..(n - 1) |-> <<"AND", "expr">>])

EmptyFragment ==
    [raised |-> FALSE, tokens |-> <<>>, matches |-> <<>>, clauses |-> <<>>,
     params |-> <<>>]

\* ProcessNorm._build_filter_clause: the fragment text (tokens), what it matches
\* and tests, and the binding map; raised = a KeyError left the function
build_filter_clause(filters) ==
    IF filters = <<>> THEN EmptyFragment
    ELSE IF \E i \in 1..Len(filters) : FilterKeyError(filters[i])
    THEN [EmptyFragment EXCEPT !.raised = TRUE]
    ELSE LET entries == [i \in 1..Len(filters) |-> FilterEntry(filters[i], i)]
             match_clauses == Flatten([i \in 1..Len(filters) |-> entries[i].match])
             all_clauses == Flatten([i \in 1..Len(filters) |-> entries[i].clause])
             all_params == MergeAll([i \in 1..Len(filters) |-> entries[i].params])
         IN  IF all_clauses = <<>> THEN EmptyFragment
             ELSE [raised  |-> FALSE,
                   tokens  |-> [k \in 1..Len(match_clauses) |-> "MATCH"]
                               \o WhereTokens(Len(all_clauses)),
                   matches |-> match_clauses,
                   clauses |-> all_clauses,
                   params  |-> all_params]

\* whether subject s passes a compiled predicate under the bindings P
PredicateHolds(c, s, P) ==
    LET vals == IF c.storage = "node"
                THEN {a[2] : a \in AttributeNodes(s, c.prop)}
                ELSE InlineValue(s, c.prop)
    IN  IF c.shape = "between"
        THEN \E v \in vals : v >= P[c.pnames[1]] /\ v <= P[c.pnames[2]]
        ELSE \E v \in vals : Compare(c.op, v, P[c.pnames[1]])

\* whether subject s survives a fragment spliced behind the MATCH of its alias:
\* every MATCH of an attribute node must find one, every predicate must hold
FragmentAdmits(frag, s, P) ==
    /\ \A k \in 1..Len(frag.matches) : AttributeNodes(s, frag.matches[k].prop) # {}
    /\ \A k \in 1..Len(frag.clauses) : PredicateHolds(frag.clauses[k], s, P)

-----------------------------------------------------------------------------
(* Rule variants: the diagnostic compilers *)

None == [kind |-> "none"]
Raised == [kind |-> "raise"]

\* names referenced as $name by the predicates of a spliced fragment
FragmentRefs(frag) ==
    UNION {{frag.clauses[k].pnames[j] : j \in 1..Len(frag.clauses[k].pnames)} :
           k \in 1..Len(frag.clauses)}

\* A compiled statement: clause skeleton of the text, the $names in the text, the
\* binding map, the filter fragment that is part of the text, and the
\* interpolated pieces of the text the evaluation depends on.
Query(variant, tokens, refs, bindings, spliced, op, storage, prop) ==
    [kind |-> "query", variant |-> variant, tokens |-> tokens, refs |-> refs,
     params |-> bindings, spliced |-> spliced, op |-> op, storage |-> storage,
     prop |-> prop]

\* tail shared by the diagnostic queries: WITH diag / MATCH (run) / MERGE provenance
ProvenanceTail == <<"WITH", "MATCH", "MERGE">>

Filters(params) == Get(params, "execution_filters", <<>>)

AverageTimeBetweenActivitiesNorm_generate_diagnostic_query(params) ==
    IF ~(Truthy(params, "activity_a") /\ Truthy(params, "activity_b")
         /\ Has(params, "threshold_seconds"))
    THEN None
    ELSE LET operator == IF Get(params, "threshold_condition", "less than") = "less than"
                         THEN "<" ELSE ">"
             frag == build_filter_clause(Filters(params))
             additional_where == IF frag.tokens # <<>> THEN <<"AND">> \o frag.tokens
                                 ELSE <<>>
         IN  IF frag.raised THEN Raised
             ELSE Query("AverageTimeBetweenActivitiesNorm",
                        <<"MATCH", "MATCH", "WHERE", "expr">> \o additional_where
                            \o <<"WITH", "WHERE", "expr", "WITH", "MERGE", "SET",
                                 "MERGE", "MERGE">> \o ProvenanceTail,
                        {"activity_a", "activity_b", "threshold_seconds", "norm_id",
                         "run_id"} \cup FragmentRefs(frag),
                        frag.params @@ params, frag, operator, "", "")

\* where_clause is built from the filters but is not part of the query text
EntityFollowsEntityNorm_generate_diagnostic_query(params) ==
    IF ~(Truthy(params, "entity_type_a") /\ Truthy(params, "entity_type_b"))
    THEN None
    ELSE LET frag == build_filter_clause(Filters(params))
         IN  IF frag.raised THEN Raised
             ELSE Query("EntityFollowsEntityNorm",
                        <<"MATCH", "OPTIONAL MATCH", "WITH", "MERGE", "SET">>
                            \o ProvenanceTail,
                        {"entity_type_a", "entity_type_b", "norm_id", "run_id"},
                        frag.params @@ params, EmptyFragment, "", "", "")

EventToEntityOpMap ==
    [o \in {"exists", "not exists", "==", "!=", ">", "<", ">=", "<="} |->
        CASE o = "exists" -> ">" [] o = "not exists" -> "=" [] o = "==" -> "="
          [] o = "!=" -> "<>" [] OTHER -> o]

EventToEntityRelationshipNorm_generate_diagnostic_query(params) ==
    IF ~(Truthy(params, "context_entity_type") /\ Truthy(params, "target_activity")
         /\ Truthy(params, "operator"))
    THEN None
    ELSE LET frag == build_filter_clause(Filters(params))
             where_clause == IF frag.tokens # <<>> THEN <<"WHERE">> \o frag.tokens
                             ELSE <<>>
         IN  IF frag.raised THEN Raised
             ELSE IF params.operator \notin DOMAIN EventToEntityOpMap THEN None
             ELSE IF params.operator \notin {"exists", "not exists"}
                     /\ ~Has(params, "count")
             THEN None
             ELSE Query("EventToEntityRelationshipNorm",
                        <<"MATCH">> \o where_clause
                            \o <<"OPTIONAL MATCH", "WITH", "WITH", "MERGE", "SET",
                                 "MERGE">> \o ProvenanceTail,
                        {"context_entity_type", "target_activity", "count", "norm_id",
                         "run_id"} \cup FragmentRefs(frag),
                        frag.params @@ params, frag,
                        EventToEntityOpMap[params.operator], "", "")

\* f"${not forbidden}": the text references a parameter named True or False
PolarityParam(params) == IF Get(params, "forbidden", FALSE) THEN "False" ELSE "True"

ActivityDirectlyFollowsNorm_generate_diagnostic_query(params) ==
    IF ~(Truthy(params, "activity_a") /\ Truthy(params, "activity_b"))
    THEN None
    ELSE LET frag == build_filter_clause(Filters(params))
             where_clause == IF frag.tokens # <<>> THEN <<"WHERE">> \o frag.tokens
                             ELSE <<>>
         IN  IF frag.raised THEN Raised
             ELSE Query("ActivityDirectlyFollowsNorm",
                        <<"MATCH">> \o where_clause
                            \o <<"OPTIONAL MATCH", "WITH", "WITH", "MERGE", "SET",
                                 "MERGE">> \o ProvenanceTail,
                        {"activity_a", "activity_b", PolarityParam(params), "norm_id",
                         "run_id"} \cup FragmentRefs(frag),
                        frag.params @@ params, frag, "=", "", "")

\* PropertyValueNorm.generate_diagnostic_query, shared by EventPropertyValueNorm and
\* EntityPropertyValueNorm (they differ in get_node_match only)
PropertyValueNorm_generate_diagnostic_query(self, params) ==
    IF ~(Truthy(params, "target_name") /\ Truthy(params, "property_name")
         /\ Truthy(params, "operator") /\ Has(params, "value"))
    THEN None
    ELSE IF params.operator \notin DOMAIN OpMap THEN None
    ELSE LET frag == build_filter_clause(Filters(params))
             where_clause == frag.tokens
             attribute_storage == Get(params, "attributeStorage", "property")
             bindings == frag.params @@
                         [value |-> params.value, norm_id |-> self.norm_id,
                          target_name |-> params.target_name,
                          property_name |-> params.property_name,
                          run_id |-> params.run_id]
         IN  IF frag.raised THEN Raised
             ELSE IF attribute_storage = "node"
             THEN Query(self.norm_type,
                        <<"MATCH">> \o where_clause
                            \o <<"WITH", "OPTIONAL MATCH", "WITH", "MERGE", "SET",
                                 "MERGE">> \o ProvenanceTail,
                        {"target_name", "property_name", "value", "norm_id", "run_id"}
                            \cup FragmentRefs(frag),
                        bindings, frag, OpMap[params.operator], "node",
                        params.property_name)
             ELSE Query(self.norm_type,
                        <<"MATCH">> \o where_clause
                            \o <<"WITH", "MERGE", "SET", "MERGE">> \o ProvenanceTail,
                        {"target_name", "value", "norm_id", "run_id"}
                            \cup FragmentRefs(frag),
                        bindings, frag, OpMap[params.operator], "property",
                        params.property_name)

\* dispatch of norm.generate_diagnostic_query over the class of the norm
generate_diagnostic_query(self, params) ==
    CASE self.norm_type = "AverageTimeBetweenActivitiesNorm" ->
            AverageTimeBetweenActivitiesNorm_generate_diagnostic_query(params)
      [] self.norm_type = "EntityFollowsEntityNorm" ->
            EntityFollowsEntityNorm_generate_diagnostic_query(params)
      [] self.norm_type = "EventToEntityRelationshipNorm" ->
            EventToEntityRelationshipNorm_generate_diagnostic_query(params)
      [] self.norm_type = "ActivityDirectlyFollowsNorm" ->
            ActivityDirectlyFollowsNorm_generate_diagnostic_query(params)
      [] OTHER -> PropertyValueNorm_generate_diagnostic_query(self, params)

-----------------------------------------------------------------------------
(* The graph store: parsing and evaluation of the diagnostic queries *)

ReadingClauses == {"MATCH", "OPTIONAL MATCH", "WITH"}
UpdatingClauses == {"MERGE", "SET", "CREATE"}

\* The store's parser on a clause skeleton: WHERE belongs to the reading clause
\* right before it and is followed by an expression, AND joins two expressions,
\* and a MATCH cannot follow an updating clause without a WITH in between.
WellFormed(tokens) ==
    \A i \in 1..Len(tokens) :
        /\ tokens[i] = "WHERE" =>
              /\ i > 1 /\ tokens[i - 1] \in ReadingClauses
              /\ i < Len(tokens) /\ tokens[i + 1] = "expr"
        /\ tokens[i] = "AND" =>
              /\ i > 1 /\ tokens[i - 1] = "expr"
              /\ i < Len(tokens) /\ tokens[i + 1] = "expr"
        /\ tokens[i] = "expr" => i > 1 /\ tokens[i - 1] \in {"WHERE", "AND"}
        /\ tokens[i] \in {"MATCH", "OPTIONAL MATCH"} =>
              (i > 1 => tokens[i - 1] \notin UpdatingClauses)

\* session.run raises for a text that does not parse and for a $name the binding
\* map does not hold; execute_query turns the exception into None
StoreAccepts(q) == WellFormed(q.tokens) /\ q.refs \subseteq DOMAIN q.params

WithLabel(label, type) ==
    {s \in Subjects : Graph[s].label = label /\ Graph[s].type = type}

Row(related_id, links, complies, duration_seconds, actual_count) ==
    [related_id |-> related_id, links |-> links, complies |-> complies,
     duration_seconds |-> duration_seconds, actual_count |-> actual_count]

\* the duration taken from b to a
DurationSwapped(a, b) ==
    {ta - tb : <<ta, tb>> \in Graph[a].time \X Graph[b].time}

\* duration.inSeconds(a.time, b.time).seconds
DurationSeconds(a, b) ==
    {tb - ta : <<ta, tb>> \in Graph[a].time \X Graph[b].time}

AverageTimeBetweenActivitiesNorm_rows(q) ==
    LET P == q.params
        pairs == {ab \in WithLabel("Event", P.activity_a) \X WithLabel("Event", P.activity_b) :
                    /\ \E ta \in Graph[ab[1]].time : \E tb \in Graph[ab[2]].time : ta < tb
                    /\ FragmentAdmits(q.spliced, ab[1], P)}
    IN  {Row(<<ab[1], ab[2]>>, {ab[1], ab[2]},
             \E d \in DurationSeconds(ab[1], ab[2]) : Compare(q.op, d, P.threshold_seconds),
             DurationSeconds(ab[1], ab[2]), {}) : ab \in pairs}

EntityFollowsEntityNorm_rows(q) ==
    LET P == q.params
    IN  {Row(<<ea>>, {},
             \E eb \in WithLabel("Entity", P.entity_type_b) : <<ea, eb>> \in DF_ENTITY,
             {}, {}) :
         ea \in {s \in WithLabel("Entity", P.entity_type_a) :
                    FragmentAdmits(q.spliced, s, P)}}

EventToEntityRelationshipNorm_rows(q) ==
    LET P == q.params
        actual_count(ctx) ==
            Cardinality({ev \in WithLabel("Event", P.target_activity) :
                            <<ev, ctx>> \in CORR})
    IN  {Row(<<ctx>>, {ctx}, Compare(q.op, actual_count(ctx), P.count), {},
             {actual_count(ctx)}) :
         ctx \in {s \in WithLabel("Entity", P.context_entity_type) :
                    FragmentAdmits(q.spliced, s, P)}}

ActivityDirectlyFollowsNorm_rows(q) ==
    LET P == q.params
        directly_follows(ev_a) ==
            \E ev_b \in WithLabel("Event", P.activity_b) : <<ev_a, ev_b>> \in DF
        expected == IF "True" \in q.refs THEN P["True"] ELSE P["False"]
    IN  {Row(<<ev_a>>, {ev_a}, directly_follows(ev_a) = expected, {}, {}) :
         ev_a \in {s \in WithLabel("Event", P.activity_a) :
                    FragmentAdmits(q.spliced, s, P)}}

\* get_node_match of EventPropertyValueNorm / EntityPropertyValueNorm
get_node_match(variant, P) ==
    IF variant = "EventPropertyValueNorm"
    THEN WithLabel("Event", P.target_name)
    ELSE WithLabel("Entity", P.target_name)

\* a subject without the value taken as compliant
PropertyValueNorm_rowsAbsentComplies(q) ==
    LET P == q.params
        vals(n) == IF q.storage = "node"
                   THEN {a[2] : a \in AttributeNodes(n, q.prop)}
                   ELSE InlineValue(n, q.prop)
    IN  {Row(<<n>>, {n}, \A v \in vals(n) : Compare(q.op, v, P.value), {}, {}) :
         n \in {s \in get_node_match(q.variant, P) : FragmentAdmits(q.spliced, s, P)}}

PropertyValueNorm_rows(q) ==
    LET P == q.params
        vals(n) == IF q.storage = "node"
                   THEN {a[2] : a \in AttributeNodes(n, q.prop)}
                   ELSE InlineValue(n, q.prop)
    IN  {Row(<<n>>, {n}, \E v \in vals(n) : Compare(q.op, v, P.value), {}, {}) :
         n \in {s \in get_node_match(q.variant, P) : FragmentAdmits(q.spliced, s, P)}}

\* the rows a diagnostic query reaches its MERGE (diag ...) with
DiagnosticRows(q) ==
    CASE q.variant = "AverageTimeBetweenActivitiesNorm" ->
            AverageTimeBetweenActivitiesNorm_rows(q)
      [] q.variant = "EntityFollowsEntityNorm" -> EntityFollowsEntityNorm_rows(q)
      [] q.variant = "EventToEntityRelationshipNorm" ->
            EventToEntityRelationshipNorm_rows(q)
      [] q.variant = "ActivityDirectlyFollowsNorm" -> ActivityDirectlyFollowsNorm_rows(q)
      [] OTHER -> PropertyValueNorm_rows(q)

EmptyStore ==
    [runs |-> {}, diagnostics |-> {}, complianceEdges |-> {}, generatedIn |-> {},
     processNorms |-> {}, aggProps |-> {}, definesAggregationBy |-> {},
     aggResults |-> {}, aggregatedBy |-> {}, serial |-> 0]

\* a pattern that matches no node: MERGE then behaves as CREATE
CreateAlways(diagnostics, norm_id, related_id) == {}

\* the Diagnostic nodes the pattern of MERGE (diag {norm_id, related_id}) matches
MatchingDiagnostics(diagnostics, norm_id, related_id) ==
    {d \in diagnostics : d.norm_id = norm_id /\ d.related_id = related_id}

\* The write part of a diagnostic query: MERGE the Diagnostic of every row, SET
\* complies and the measurement, MERGE the compliance edges, then, for the rows
\* that find the run node, MERGE the provenance edge.
ExecuteDiagnostic(store, q) ==
    LET rows == DiagnosticRows(q)
        norm_id == q.params.norm_id
        RowOf(d) == {r \in rows : d \in MatchingDiagnostics(store.diagnostics, norm_id,
                                                           r.related_id)}
        Written(d, r) ==
            [d EXCEPT !.complies = r.complies,
                      !.duration_seconds = IF r.duration_seconds # {}
                                           THEN r.duration_seconds ELSE @,
                      !.actual_count = IF r.actual_count # {} THEN r.actual_count ELSE @]
        kept == {d \in store.diagnostics : RowOf(d) = {}}
        updated == {Written(d, CHOOSE r \in RowOf(d) : TRUE) :
                        d \in {e \in store.diagnostics : RowOf(e) # {}}}
        fresh == {r \in rows : MatchingDiagnostics(store.diagnostics, norm_id,
                                                   r.related_id) = {}}
        created == {[nid |-> [q |-> store.serial, k |-> r.related_id],
                     norm_id |-> norm_id, related_id |-> r.related_id,
                     complies |-> r.complies, duration_seconds |-> r.duration_seconds,
                     actual_count |-> r.actual_count] : r \in fresh}
        touched == updated \cup created
        rowFor(d) == CHOOSE r \in rows : r.related_id = d.related_id
        run_found == \E run \in store.runs :
                        /\ run.label = config.analysis_run_node_label
                        /\ run.run_id = q.params.run_id
    IN  [store EXCEPT
            !.diagnostics = kept \cup updated \cup created,
            !.complianceEdges = @ \cup UNION {{<<s, d.nid>> : s \in rowFor(d).links} :
                                                d \in touched},
            !.generatedIn = IF run_found
                            THEN @ \cup {<<d.nid, q.params.run_id>> : d \in touched}
                            ELSE @,
            !.serial = IF created # {} THEN @ + 1 ELSE @]

-----------------------------------------------------------------------------
(* Rule variants: the aggregation compilers, and the Grouping Key Compiler *)

GroupingProperties(params) == Get(params, "aggregation_properties", <<>>)

\* the variant's match_clause restricts to Diagnostics carrying its measurement
MeasurementOf(norm_type) ==
    CASE norm_type = "AverageTimeBetweenActivitiesNorm" -> "duration_seconds"
      [] norm_type = "EventToEntityRelationshipNorm" -> "actual_count"
      [] OTHER -> ""

\* ProcessNorm._generate_aggregation_query_template behind the generate_aggregation_query
\* of each variant (prop_info['name'] raises KeyError when the name is missing)
generate_aggregation_query(self, params) ==
    LET grouping_properties == GroupingProperties(params)
        match_clause == IF MeasurementOf(self.norm_type) # ""
                        THEN <<"MATCH", "WHERE", "expr">> ELSE <<"MATCH">>
        additional_matches ==
            Flatten([i \in 1..Len(grouping_properties) |->
                        IF Get(grouping_properties[i], "attributeStorage", "property") = "node"
                        THEN <<"OPTIONAL MATCH">> ELSE <<>>])
    IN  IF \E i \in 1..Len(grouping_properties) : ~Has(grouping_properties[i], "name")
        THEN Raised
        ELSE [kind |-> "query", variant |-> self.norm_type,
              tokens |-> match_clause \o additional_matches \o <<"RETURN">>,
              refs |-> {"norm_id"}, params |-> [norm_id |-> self.norm_id],
              measurement |-> MeasurementOf(self.norm_type),
              grouping |-> grouping_properties]

\* the accessor's value without the coalesce
KeyPartsNoCoalesce(s, prop_info) ==
    LET vals == IF Get(prop_info, "attributeStorage", "property") = "node"
                THEN {a[2] : a \in AttributeNodes(s, prop_info.name)}
                ELSE InlineValue(s, prop_info.name)
    IN  IF vals = {} THEN {"null"} ELSE {ToString(v) : v \in vals}

\* coalesce(toString(<accessor>), 'N/A') for one grouping property of subject s;
\* a node-backed property gives one value per attribute node the OPTIONAL MATCH finds
KeyParts(s, prop_info) ==
    LET vals == IF Get(prop_info, "attributeStorage", "property") = "node"
                THEN {a[2] : a \in AttributeNodes(s, prop_info.name)}
                ELSE InlineValue(s, prop_info.name)
    IN  IF vals = {} THEN {"N/A"} ELSE {ToString(v) : v \in vals}

\* the values of grouping_key the rows of subject s carry
GroupingKeys(s, grouping) ==
    IF grouping = <<>>
    THEN {[list |-> FALSE, parts |-> <<"Overall">>]}
    ELSE {[list |-> TRUE, parts |-> k] :
            k \in {t \in [1..Len(grouping) ->
                            UNION {KeyParts(s, grouping[i]) : i \in 1..Len(grouping)}] :
                     \A i \in 1..Len(grouping) : t[i] \in KeyParts(s, grouping[i])}}

\* an aggregation input restricted to the Diagnostics linked to the current run
AggregationInputOfRun(store, q) ==
    {e \in store.complianceEdges :
        \E d \in store.diagnostics :
            /\ d.nid = e[2]
            /\ d.norm_id = q.params.norm_id
            /\ <<d.nid, run_id>> \in store.generatedIn
            /\ q.measurement = "duration_seconds" => d.duration_seconds # {}
            /\ q.measurement = "actual_count" => d.actual_count # {}}

\* MATCH (diag {norm_id})<-[:COMPLIES_WITH]-(subject) [WHERE measurement IS NOT NULL]:
\* one row per compliance edge of a Diagnostic of the norm
AggregationInput(store, q) ==
    {e \in store.complianceEdges :
        \E d \in store.diagnostics :
            /\ d.nid = e[2]
            /\ d.norm_id = q.params.norm_id
            /\ q.measurement = "duration_seconds" => d.duration_seconds # {}
            /\ q.measurement = "actual_count" => d.actual_count # {}}

\* The rows the aggregation query returns: one per grouping key that occurs, with
\* count(diag) and SUM(CASE WHEN diag.complies ...) over the rows of the group
\* (avg/min/max of the measurement are not modelled).
ExecuteAggregation(store, q) ==
    LET input == AggregationInput(store, q)
        expanded == UNION {{<<e[1], e[2], k>> : k \in GroupingKeys(e[1], q.grouping)} :
                            e \in input}
        Complies(nid) == \E d \in store.diagnostics : d.nid = nid /\ d.complies
    IN  {[grouping_key |-> k,
          total |-> Cardinality({r \in expanded : r[3] = k}),
          compliant |-> Cardinality({r \in expanded : r[3] = k /\ Complies(r[2])})] :
         k \in {r[3] : r \in expanded}}

-----------------------------------------------------------------------------
(* Persistence of norms, aggregation results and the run node *)

\* persist_aggregation_results, the effect of its query: per result row one
\* AggregationResult, created only on the rows that MATCH the run node and the
\* ProcessNorm node, then linked to the AggregationProperty nodes of that norm
ExecutePersistAggregation(store, norm_id, rid, results, aggregation_properties) ==
    LET matched == (\E run \in store.runs :
                        run.label = config.analysis_run_node_label /\ run.run_id = rid)
                   /\ norm_id \in store.processNorms
        created == {[nid |-> [q |-> store.serial, k |-> r.grouping_key],
                     norm_id |-> norm_id, run_id |-> rid,
                     grouping_key |-> r.grouping_key, total |-> r.total,
                     compliant |-> r.compliant] : r \in results}
        names == {Get(aggregation_properties[i], "name", "") :
                    i \in 1..Len(aggregation_properties)}
        aps == {ap \in store.aggProps :
                    <<norm_id, ap.nid>> \in store.definesAggregationBy /\ ap.name \in names}
    IN  IF matched /\ created # {}
        THEN [store EXCEPT !.aggResults = @ \cup created,
                           !.aggregatedBy = @ \cup {<<a.nid, ap.nid>> : a \in created, ap \in aps},
                           !.serial = @ + 1]
        ELSE store

\* SET n = $properties: the store takes primitives and arrays of primitives as
\* property values and raises on a list of maps (execution_filters, filters)
StorableProperties(properties) ==
    /\ Get(properties, "execution_filters", <<>>) = <<>>
    /\ Get(properties, "filters", <<>>) = <<>>

\* persist_norms, first query of a norm: MATCH the run, MERGE the ProcessNorm
ExecutePersistNorm(store, norm_id, rid) ==
    IF \E run \in store.runs :
          run.label = CONFIG.analysis_run_node_label /\ run.run_id = rid
    THEN [store EXCEPT !.processNorms = @ \cup {norm_id}]
    ELSE store

\* persist_norms, second query of a norm: CREATE one AggregationProperty per entry
ExecutePersistAggregationProperties(store, norm_id, aggregation_properties) ==
    LET created == {[nid |-> [q |-> store.serial, k |-> i],
                     name |-> Get(aggregation_properties[i], "name", "")] :
                    i \in 1..Len(aggregation_properties)}
    IN  IF norm_id \in store.processNorms
        THEN [store EXCEPT !.aggProps = @ \cup created,
                           !.definesAggregationBy = @ \cup {<<norm_id, ap.nid>> : ap \in created},
                           !.serial = @ + 1]
        ELSE store

\* CREATE (run:AnalysisRun {run_id, run_type, schedule, start_time, status: 'running'})
ExecuteCreateRun(store, rid, run_type) ==
    [store EXCEPT !.runs = @ \cup {[label |-> CONFIG.analysis_run_node_label,
                                    run_id |-> rid, run_type |-> run_type,
                                    status |-> "running"]}]

\* MATCH (run:AnalysisRun {run_id}) SET run.status = $status
ExecuteUpdateStatus(store, rid, st) ==
    [store EXCEPT !.runs = {IF run.label = CONFIG.analysis_run_node_label /\ run.run_id = rid
                            THEN [run EXCEPT !.status = st] ELSE run :
                            run \in @}]

-----------------------------------------------------------------------------
(* The norm definitions submitted in requests *)

PrioIs1 == [property_name |-> "prio", property_operator |-> "==", property_value |-> 1]
ByPrio == <<[name |-> "prio"]>>

AvgTime ==
    [norm_type |-> "AverageTimeBetweenActivitiesNorm", norm_id |-> "n1",
     description |-> "A to B within 3", activity_a |-> "A", activity_b |-> "B",
     threshold_seconds |-> 3, threshold_condition |-> "less than"]

AvgTimeFiltered == [execution_filters |-> <<PrioIs1>>] @@ AvgTime

Follows ==
    [norm_type |-> "EntityFollowsEntityNorm", norm_id |-> "n2",
     description |-> "Order then Item", entity_type_a |-> "Order",
     entity_type_b |-> "Item", aggregation_properties |-> ByPrio]

FollowsFiltered == [execution_filters |-> <<PrioIs1>>] @@ Follows

Shipped ==
    [norm_type |-> "EventToEntityRelationshipNorm", norm_id |-> "n1",
     description |-> "Order has a B event", context_entity_type |-> "Order",
     target_activity |-> "B", operator |-> ">=", count |-> 1,
     aggregation_properties |-> ByPrio]

ShippedExists ==
    [norm_type |-> "EventToEntityRelationshipNorm", norm_id |-> "n1",
     description |-> "Order has a B event", context_entity_type |-> "Order",
     target_activity |-> "B", operator |-> "exists"]

ShippedFiltered == [execution_filters |-> <<PrioIs1>>] @@ Shipped

DirectlyFollows ==
    [norm_type |-> "ActivityDirectlyFollowsNorm", norm_id |-> "n1",
     description |-> "A directly followed by B", activity_a |-> "A",
     activity_b |-> "B", forbidden |-> FALSE]

Amount ==
    [norm_type |-> "EntityPropertyValueNorm", norm_id |-> "n2",
     description |-> "Order amount at least 3", target_name |-> "Order",
     property_name |-> "amount", operator |-> ">=", value |-> 3,
     aggregation_properties |-> ByPrio]

AmountFiltered == [execution_filters |-> <<PrioIs1>>] @@ Amount

EventPrio ==
    [norm_type |-> "EventPropertyValueNorm", norm_id |-> "n2",
     description |-> "A events have prio 1", target_name |-> "A",
     property_name |-> "prio", operator |-> "==", value |-> 1]

AmountNoValue ==
    [norm_type |-> "EntityPropertyValueNorm", norm_id |-> "n2",
     description |-> "value missing", target_name |-> "Order",
     property_name |-> "amount", operator |-> ">=",
     aggregation_properties |-> ByPrio]

AmountBadOperator == [operator |-> "~"] @@ Amount

\* a norm_type that is a string but no key of NORM_CLASS_MAP
UnknownType == [norm_type |-> "NoSuchNorm", norm_id |-> "n1", description |-> "unknown"]

\* a norm_type that is a JSON array: a Python list, which is unhashable
ListType == "[]"
ListTyped == [norm_type |-> ListType, norm_id |-> "n1", description |-> "list"]

NoNormId ==
    [norm_type |-> "EntityFollowsEntityNorm", description |-> "no norm_id",
     entity_type_a |-> "Order", entity_type_b |-> "Item"]

Catalogue ==
    {AvgTime, AvgTimeFiltered, Follows, FollowsFiltered, Shipped, ShippedExists,
     ShippedFiltered, DirectlyFollows, Amount, AmountFiltered, EventPrio, AmountNoValue,
     AmountBadOperator, UnknownType, ListTyped, NoNormId}

\* the norms submitted again by the invocations after the first
RepeatCatalogue == {AvgTime, Shipped, Amount, AmountFiltered}

NormLists(catalogue, n) == UNION {[1..k -> catalogue] : k \in 0..n}

Requests(first) ==
    [run_type : {"ad-hoc", "scheduled"}, config : {<<>>},
     norms : IF first THEN NormLists(Catalogue, MaxNorms)
             ELSE NormLists(RepeatCatalogue, 1)]

NORM_CLASS_MAP ==
    {"AverageTimeBetweenActivitiesNorm", "EntityFollowsEntityNorm",
     "EventToEntityRelationshipNorm", "ActivityDirectlyFollowsNorm",
     "EventPropertyValueNorm", "EntityPropertyValueNorm"}

-----------------------------------------------------------------------------
(* run_analysis_from_request, parse_and_run_norms and ProcessNorm.run_analysis *)

NoRequest == [run_type |-> "ad-hoc", config |-> <<>>, norms |-> <<>>]
NoNorm ==
    [self |-> <<>>, params |-> <<>>, diagnostic |-> "", written |-> {},
     agg_results |-> None]
NoHistory == [created |-> 0, status_writes |-> 0, escaped |-> FALSE]

Init ==
    /\ db = EmptyStore
    /\ pc = "idle"
    /\ req = NoRequest
    /\ run_id = 0
    /\ idx = 0
    /\ cur = NoNorm
    /\ status = ""
    /\ reports = <<>>
    /\ norm_reports = <<>>
    /\ driver = "none"
    /\ qlog = <<>>
    /\ hist = NoHistory
    /\ faults = 0
    /\ invocations = 0

\* whether the store (or the connection) may fail the next call
FaultChoices == IF faults < MaxFaults THEN {FALSE, TRUE} ELSE {FALSE}

Logged(norm, step, accepted) == [norm |-> norm, step |-> step, accepted |-> accepted]

\* get_neo4j_driver: None when the connection cannot be established
Invoke(request, fault) ==
    /\ pc = "idle"
    /\ invocations < MaxInvocations
    /\ invocations' = invocations + 1
    /\ IF fault
       THEN /\ faults' = faults + 1
            /\ UNCHANGED <<pc, req, run_id, driver>>
       ELSE /\ pc' = "create_run"
            /\ req' = request
            /\ run_id' = invocations + 1
            /\ driver' = "open"
            /\ UNCHANGED faults
    /\ UNCHANGED <<db, idx, cur, status, reports, norm_reports, qlog, hist>>

\* lines 744-767: the create query, whose result is not looked at
CreateRun(fault) ==
    /\ pc = "create_run"
    /\ db' = IF fault THEN db ELSE ExecuteCreateRun(db, run_id, req.run_type)
    /\ qlog' = Append(qlog, Logged(0, "create_run", ~fault))
    /\ hist' = [hist EXCEPT !.created = IF fault THEN @ ELSE @ + 1]
    /\ faults' = IF fault THEN faults + 1 ELSE faults
    /\ idx' = 1
    /\ reports' = <<>>
    /\ norm_reports' = <<>>
    /\ pc' = IF req.run_type = "scheduled" /\ req.norms # <<>>
             THEN "persist_norms" ELSE "loop"
    /\ UNCHANGED <<req, run_id, cur, status, driver, invocations>>

\* persist_norms, one iteration of its loop; fault names the query that fails
PersistNorm(fault) ==
    /\ pc = "persist_norms"
    /\ LET properties == req.norms[idx]
           aggregation_properties == Get(properties, "aggregation_properties", <<>>)
           ok1 == StorableProperties(properties) /\ fault # "first"
           ok2 == fault # "second"
           db1 == IF ok1 THEN ExecutePersistNorm(db, properties.norm_id, run_id) ELSE db
           db2 == IF ok2
                  THEN ExecutePersistAggregationProperties(db1, properties.norm_id,
                                                           aggregation_properties)
                  ELSE db1
       IN  IF ~Truthy(properties, "norm_id")
           THEN /\ fault = "none"
                /\ UNCHANGED <<db, qlog, faults>>
           ELSE IF aggregation_properties = <<>>
           THEN /\ fault # "second"
                /\ db' = db1
                /\ qlog' = Append(qlog, Logged(idx, "persist_norm", ok1))
                /\ faults' = IF fault = "none" THEN faults ELSE faults + 1
           ELSE /\ db' = db2
                /\ qlog' = qlog \o <<Logged(idx, "persist_norm", ok1),
                                     Logged(idx, "persist_aggregation_properties", ok2)>>
                /\ faults' = IF fault = "none" THEN faults ELSE faults + 1
    /\ idx' = IF idx < Len(req.norms) THEN idx + 1 ELSE 1
    /\ pc' = IF idx < Len(req.norms) THEN "persist_norms" ELSE "loop"
    /\ UNCHANGED <<req, run_id, cur, status, reports, norm_reports, driver, hist,
                   invocations>>

\* run_analysis with the aggregation ahead of the diagnostic
RunAnalysisReordered == <<"aggregation", "diagnostic", "persist_aggregation">>

\* the order of the steps of ProcessNorm.run_analysis
RunAnalysisOrder == <<"diagnostic", "aggregation", "persist_aggregation">>

StepAfter(step) ==
    LET i == CHOOSE k \in 1..Len(RunAnalysisOrder) : RunAnalysisOrder[k] = step
    IN  IF i < Len(RunAnalysisOrder) THEN RunAnalysisOrder[i + 1] ELSE "loop"

\* {**norm_data, "run_id": run_id}, plus attributeStorage taken from filters[0]
\* for the two PropertyValue norm types
NormParams(norm_data, rid) ==
    LET norm_params == ("run_id" :> rid) @@ norm_data
    IN  IF /\ norm_data.norm_type \in {"EventPropertyValueNorm", "EntityPropertyValueNorm"}
           /\ Get(norm_data, "filters", <<>>) # <<>>
        THEN ("attributeStorage" :>
                 Get(norm_data.filters[1], "attributeStorage", "property")) @@ norm_params
        ELSE norm_params

\* lines 641-658: the head of the norm loop. NORM_CLASS_MAP.get raises TypeError
\* for an unhashable norm_type, outside the try; an unknown type is skipped; a
\* missing norm_id or description raises KeyError inside the try.
NextNorm ==
    /\ pc = "loop"
    /\ IF idx > Len(req.norms)
       THEN /\ reports' = norm_reports
            /\ status' = "completed"
            /\ pc' = "finally"
            /\ UNCHANGED <<idx, cur, hist>>
       ELSE LET norm_data == req.norms[idx]
                norm_type == Get(norm_data, "norm_type", "")
            IN  IF norm_type = ListType
                THEN /\ status' = "failed"
                     /\ hist' = [hist EXCEPT !.escaped = TRUE]
                     /\ pc' = "finally"
                     /\ UNCHANGED <<idx, cur, reports>>
                ELSE IF \/ norm_type \notin NORM_CLASS_MAP
                        \/ ~Has(norm_data, "norm_id")
                        \/ ~Has(norm_data, "description")
                THEN /\ idx' = idx + 1
                     /\ UNCHANGED <<pc, cur, status, reports, hist>>
                ELSE /\ cur' = [NoNorm EXCEPT
                                  !.self = [norm_id |-> norm_data.norm_id,
                                            description |-> norm_data.description,
                                            norm_type |-> norm_type],
                                  !.params = NormParams(norm_data, run_id)]
                     /\ pc' = RunAnalysisOrder[1]
                     /\ UNCHANGED <<idx, status, reports, hist>>
    /\ UNCHANGED <<db, req, run_id, norm_reports, driver, qlog, faults, invocations>>

\* run_analysis lines 341-346; an exception of the compiler is caught at 662-665
DiagnosticStep(fault) ==
    /\ pc = "diagnostic"
    /\ \E diag_query_tuple \in {generate_diagnostic_query(cur.self, cur.params)} :
           IF diag_query_tuple = Raised
           THEN /\ ~fault
                /\ idx' = idx + 1
                /\ pc' = "loop"
                /\ cur' = NoNorm
                /\ UNCHANGED <<db, qlog, faults>>
           ELSE IF diag_query_tuple = None
           THEN /\ ~fault
                /\ pc' = StepAfter("diagnostic")
                /\ cur' = [cur EXCEPT !.diagnostic = "no query"]
                /\ UNCHANGED <<db, qlog, faults, idx>>
           ELSE LET ok == StoreAccepts(diag_query_tuple) /\ ~fault
                IN  /\ fault => StoreAccepts(diag_query_tuple)
                    /\ db' = IF ok THEN ExecuteDiagnostic(db, diag_query_tuple) ELSE db
                    /\ qlog' = Append(qlog, Logged(idx, "diagnostic", ok))
                    /\ faults' = IF fault THEN faults + 1 ELSE faults
                    /\ cur' = [cur EXCEPT
                                  !.diagnostic = IF ok THEN "executed" ELSE "rejected",
                                  !.written = IF ok
                                              THEN {r.related_id :
                                                      r \in DiagnosticRows(diag_query_tuple)}
                                              ELSE {}]
                    /\ pc' = StepAfter("diagnostic")
                    /\ UNCHANGED idx
    /\ UNCHANGED <<req, run_id, status, reports, norm_reports, driver, hist, invocations>>

\* run_analysis lines 348-352
AggregationStep(fault) ==
    /\ pc = "aggregation"
    /\ LET agg_query_tuple == generate_aggregation_query(cur.self, cur.params)
       IN  IF agg_query_tuple = Raised
           THEN /\ ~fault
                /\ idx' = idx + 1
                /\ pc' = "loop"
                /\ cur' = NoNorm
                /\ UNCHANGED <<qlog, faults>>
           ELSE LET ok == StoreAccepts(agg_query_tuple) /\ ~fault
                IN  /\ qlog' = Append(qlog, Logged(idx, "aggregation", ok))
                    /\ faults' = IF fault THEN faults + 1 ELSE faults
                    /\ cur' = [cur EXCEPT !.agg_results =
                                  IF ok THEN [kind |-> "rows",
                                              rows |-> ExecuteAggregation(db, agg_query_tuple)]
                                  ELSE None]
                    /\ pc' = StepAfter("aggregation")
                    /\ UNCHANGED idx
    /\ UNCHANGED <<db, req, run_id, status, reports, norm_reports, driver, hist,
                   invocations>>

\* run_analysis lines 353-355 with persist_aggregation_results, and the append of
\* the report at lines 660-661
PersistStep(fault) ==
    /\ pc = "persist_aggregation"
    /\ LET agg_results == cur.agg_results
           aggregation_properties == GroupingProperties(cur.params)
           persists == /\ agg_results # None
                       /\ agg_results.rows # {}
                       /\ aggregation_properties # <<>>
       IN  /\ fault => persists
           /\ db' = IF persists /\ ~fault
                    THEN ExecutePersistAggregation(db, cur.self.norm_id, run_id,
                                                   agg_results.rows, aggregation_properties)
                    ELSE db
           /\ qlog' = IF persists
                      THEN Append(qlog, Logged(idx, "persist_aggregation", ~fault))
                      ELSE qlog
           /\ norm_reports' = Append(norm_reports,
                                     [norm |-> idx, norm_id |-> cur.self.norm_id,
                                      results |-> agg_results])
    /\ faults' = IF fault THEN faults + 1 ELSE faults
    /\ idx' = idx + 1
    /\ cur' = NoNorm
    /\ pc' = "loop"
    /\ UNCHANGED <<req, run_id, status, reports, driver, hist, invocations>>

\* a finally block that closes the driver only after an accepted status update
FinallyKeepsDriverOnFailure(fault) ==
    /\ pc = "finally"
    /\ db' = IF fault THEN db ELSE ExecuteUpdateStatus(db, run_id, status)
    /\ qlog' = Append(qlog, Logged(0, "update_status", ~fault))
    /\ hist' = [hist EXCEPT !.status_writes =
                   IF ~fault /\ \E run \in db.runs :
                                    /\ run.label = CONFIG.analysis_run_node_label
                                    /\ run.run_id = run_id
                   THEN @ + 1 ELSE @]
    /\ faults' = IF fault THEN faults + 1 ELSE faults
    /\ driver' = IF fault THEN driver ELSE "closed"
    /\ pc' = "return"
    /\ UNCHANGED <<req, run_id, idx, cur, status, reports, norm_reports, invocations>>

\* the finally block, lines 775-781: status update query, then driver.close()
Finally(fault) ==
    /\ pc = "finally"
    /\ db' = IF fault THEN db ELSE ExecuteUpdateStatus(db, run_id, status)
    /\ qlog' = Append(qlog, Logged(0, "update_status", ~fault))
    /\ hist' = [hist EXCEPT !.status_writes =
                   IF ~fault /\ \E run \in db.runs :
                                    /\ run.label = CONFIG.analysis_run_node_label
                                    /\ run.run_id = run_id
                   THEN @ + 1 ELSE @]
    /\ faults' = IF fault THEN faults + 1 ELSE faults
    /\ driver' = "closed"
    /\ pc' = "return"
    /\ UNCHANGED <<req, run_id, idx, cur, status, reports, norm_reports, invocations>>

\* line 783: the invocation returns and its locals are gone
Return ==
    /\ pc = "return"
    /\ pc' = "idle"
    /\ req' = NoRequest
    /\ run_id' = 0
    /\ idx' = 0
    /\ cur' = NoNorm
    /\ status' = ""
    /\ reports' = <<>>
    /\ norm_reports' = <<>>
    /\ driver' = "none"
    /\ qlog' = <<>>
    /\ hist' = NoHistory
    /\ UNCHANGED <<db, faults, invocations>>

Next ==
    \/ /\ pc = "idle"
       /\ \E fault \in FaultChoices : \E request \in Requests(invocations = 0) :
             Invoke(request, fault)
    \/ \E fault \in FaultChoices : CreateRun(fault)
    \/ \E fault \in IF faults < MaxFaults THEN {"none", "first", "second"} ELSE {"none"} :
          PersistNorm(fault)
    \/ NextNorm
    \/ \E fault \in FaultChoices : DiagnosticStep(fault)
    \/ \E fault \in FaultChoices : AggregationStep(fault)
    \/ \E fault \in FaultChoices : PersistStep(fault)
    \/ \E fault \in FaultChoices : Finally(fault)
    \/ Return

Spec == Init /\ [][Next]_vars

-----------------------------------------------------------------------------
(* Evaluation of one norm per invocation, over a wider range of definitions *)

\* datetime filters on the timestamp of an event
TimeBetween ==
    [property_name |-> "time", property_operator |-> "between", property_value |-> 1,
     property_value_end |-> 5, property_data_type |-> "datetime"]
TimeBetweenOneBound ==
    [property_name |-> "time", property_operator |-> "between", property_value |-> 1,
     property_data_type |-> "datetime"]

\* prio stored on an attribute node
PrioNodeIs2 ==
    [property_name |-> "prio", property_operator |-> "==", property_value |-> 2,
     attributeStorage |-> "node"]

\* operators the data type of the filter does not have
PrioBefore == [property_name |-> "prio", property_operator |-> "before", property_value |-> 1]
PrioNodeBefore == [attributeStorage |-> "node"] @@ PrioBefore

EvalFilters ==
    {PrioIs1, PrioNodeIs2, TimeBetween, TimeBetweenOneBound, PrioBefore, PrioNodeBefore}

FilterLists(n) == UNION {[1..k -> EvalFilters] : k \in 0..n}

EvalBase == {AvgTime, Follows, Shipped, DirectlyFollows, Amount, EventPrio}

\* EventToEntityRelationship with the operators exists / not exists, with and
\* without a count in the definition
EventToEntityExistence ==
    {[operator |-> op] @@ ShippedExists : op \in {"exists", "not exists"}}
    \cup {[operator |-> op, count |-> c] @@ ShippedExists :
            op \in {"exists", "not exists"}, c \in {0, 1}}

\* ActivityDirectlyFollows with forbidden true, false and left out
DirectlyFollowsPolarity ==
    {[forbidden |-> b] @@ DirectlyFollows : b \in BOOLEAN}
    \cup {[k \in DOMAIN DirectlyFollows \ {"forbidden"} |-> DirectlyFollows[k]]}

\* AverageTimeBetweenActivities over thresholds and conditions, the condition
\* also left out or not one of the two the variant names
AvgTimeThresholds ==
    {[threshold_seconds |-> t, threshold_condition |-> c] @@ AvgTime :
        t \in {0, 2, 3}, c \in {"less than", "greater than", "at most"}}
    \cup {[k \in DOMAIN AvgTime \ {"threshold_condition"} |-> AvgTime[k]]}

\* the operators of op_map with the values they are compared against: an integer
\* for the comparisons, a list for the memberships
OperatorValues ==
    {<<o, v>> : o \in {"==", "!=", ">", "<", ">=", "<="}, v \in {2, 3, 4}}
        \cup {<<o, v>> : o \in {"in", "not in"}, v \in {{3}, {2, 4}}}

\* the ways a PropertyValue definition names the storage of the checked
\* property: not at all, with attributeStorage, or in the first entry of filters
StorageDeclarations ==
    {<<>>, [attributeStorage |-> "property"], [attributeStorage |-> "node"],
     [filters |-> <<[attributeStorage |-> "node"]>>],
     [attributeStorage |-> "node", filters |-> <<[property_name |-> "amount"]>>]}

\* Entity/EventPropertyValue over every operator, value and storage declaration
PropertyValueStorage ==
    {IF st = <<>> THEN [operator |-> ov[1], value |-> ov[2]] @@ base
     ELSE st @@ [operator |-> ov[1], value |-> ov[2]] @@ base :
        base \in {[k \in DOMAIN Amount \ {"aggregation_properties"} |-> Amount[k]],
                  EventPrio},
        ov \in OperatorValues, st \in StorageDeclarations}

\* the entries of aggregation_properties: a property held inline or on an
\* attribute node
GroupingSpecs ==
    {[name |-> n] : n \in {"prio", "amount"}}
        \cup {[name |-> n, attributeStorage |-> "node"] : n \in {"prio", "amount"}}

GroupingLists(n) == UNION {[1..k -> GroupingSpecs] : k \in 0..n}

\* every variant with no, one or several grouping properties
Grouped ==
    {LET plain == [k \in DOMAIN base \ {"aggregation_properties"} |-> base[k]]
     IN  IF gl = <<>> THEN plain ELSE [aggregation_properties |-> gl] @@ plain :
        base \in {AvgTime, Follows, Shipped, DirectlyFollows, Amount, EventPrio},
        gl \in GroupingLists(MaxGrouping)}

\* the definitions evaluated without execution filters
EvalPlain ==
    EventToEntityExistence \cup DirectlyFollowsPolarity \cup AvgTimeThresholds
        \cup PropertyValueStorage \cup Grouped

EvalNorms ==
    {IF fl = <<>> THEN base ELSE [execution_filters |-> fl] @@ base :
        base \in EvalBase, fl \in FilterLists(MaxFilters)}
    \cup EvalPlain

\* a request config that renames the label of the run nodes
RunLabelOverride == [analysis_run_node_label |-> "Run"]

EvalRequests ==
    [run_type : {"ad-hoc", "scheduled"}, config : {<<>>, RunLabelOverride},
     norms : {<<n>> : n \in EvalNorms}]

\* one invocation on the empty store, with a store that fails no call
EvalNext ==
    \/ /\ pc = "idle"
       /\ invocations = 0
       /\ \E request \in EvalRequests : Invoke(request, FALSE)
    \/ CreateRun(FALSE)
    \/ PersistNorm("none")
    \/ NextNorm
    \/ DiagnosticStep(FALSE)
    \/ AggregationStep(FALSE)
    \/ PersistStep(FALSE)
    \/ Finally(FALSE)
    \/ Return

EvalSpec == Init /\ [][EvalNext]_vars

-----------------------------------------------------------------------------
(* Claims *)

\* the norm object and parameters parse_and_run_norms builds for a definition
Runnable(norm_data) ==
    /\ Get(norm_data, "norm_type", "") \in NORM_CLASS_MAP
    /\ Has(norm_data, "norm_id")
    /\ Has(norm_data, "description")

SelfOf(norm_data) ==
    [norm_id |-> norm_data.norm_id, description |-> norm_data.description,
     norm_type |-> norm_data.norm_type]

\* C1: the store never holds two Diagnostics with the same (norm_id, related_id),
\* and executing a norm's diagnostic query again on the store its execution left
\* creates no Diagnostic and changes no complies value.
C1_OneDiagnosticPerKey ==
    /\ \A d1, d2 \in db.diagnostics :
          (d1.norm_id = d2.norm_id /\ d1.related_id = d2.related_id) => d1 = d2
    /\ (pc = StepAfter("diagnostic") /\ cur.diagnostic = "executed") =>
          ExecuteDiagnostic(db, generate_diagnostic_query(cur.self, cur.params)).diagnostics
             = db.diagnostics

\* a second run has just re-evaluated a Diagnostic that the first run wrote
C1_Witness ==
    /\ pc = StepAfter("diagnostic")
    /\ cur.diagnostic = "executed"
    /\ \E d \in db.diagnostics :
          /\ d.norm_id = cur.self.norm_id
          /\ <<d.nid, 1>> \in db.generatedIn
          /\ <<d.nid, 2>> \in db.generatedIn

\* positions of the queries of norm i at step `step` in the log of the invocation
Positions(i, step) == {k \in 1..Len(qlog) : qlog[k].norm = i /\ qlog[k].step = step}

EvaluationSteps == {"diagnostic", "aggregation", "persist_aggregation"}

PersistNormSteps == {"persist_norm", "persist_aggregation_properties"}

\* C2: when the invocation returns, its AnalysisRun was created once, exists with
\* the status written once by the finally block: completed when the loop
\* returned, failed when an exception escaped it.
C2_RunCreatedAndClosedOnce ==
    pc = "return" =>
        /\ hist.created = 1
        /\ hist.status_writes = 1
        /\ \E run \in db.runs :
              /\ run.run_id = run_id
              /\ run.status = IF hist.escaped THEN "failed" ELSE "completed"

\* C3 as stated: every query of norm i is issued before any query of norm j > i,
\* and per norm diagnostic before aggregation before persistence of the results.
C3_AllQueriesInSubmissionOrder ==
    \A k1, k2 \in 1..Len(qlog) :
        /\ (qlog[k1].norm > 0 /\ qlog[k1].norm < qlog[k2].norm) => k1 < k2
        /\ (qlog[k1].norm = qlog[k2].norm /\ qlog[k1].step = "diagnostic"
            /\ qlog[k2].step \in {"aggregation", "persist_aggregation"}) => k1 < k2
        /\ (qlog[k1].norm = qlog[k2].norm /\ qlog[k1].step = "aggregation"
            /\ qlog[k2].step = "persist_aggregation") => k1 < k2

\* C3 amended: the evaluation queries (diagnostic, aggregation, persistence of the
\* aggregation results) of norm i are issued before those of norm j > i, and per
\* norm in that order; the queries persist_norms issues for the norms of a
\* scheduled run all come before the loop, in submission order.
C3_EvaluationInSubmissionOrder ==
    \A k1, k2 \in 1..Len(qlog) :
        /\ (qlog[k1].norm > 0 /\ qlog[k1].norm < qlog[k2].norm
            /\ qlog[k1].step \in EvaluationSteps /\ qlog[k2].step \in EvaluationSteps)
              => k1 < k2
        /\ (qlog[k1].norm = qlog[k2].norm /\ qlog[k1].step = "diagnostic"
            /\ qlog[k2].step \in {"aggregation", "persist_aggregation"}) => k1 < k2
        /\ (qlog[k1].norm = qlog[k2].norm /\ qlog[k1].step = "aggregation"
            /\ qlog[k2].step = "persist_aggregation") => k1 < k2
        /\ (qlog[k1].step \in PersistNormSteps /\ qlog[k2].step \in EvaluationSteps)
              => k1 < k2
        /\ (qlog[k1].step \in PersistNormSteps /\ qlog[k2].step \in PersistNormSteps
            /\ qlog[k1].norm < qlog[k2].norm) => k1 < k2

\* a scheduled run of two norms has issued all three evaluation queries of both
C3_Witness ==
    /\ pc = "return"
    /\ Len(req.norms) = 2
    /\ \A i \in 1..2 : \A step \in EvaluationSteps : Positions(i, step) # {}
    /\ Positions(2, "persist_norm") # {}

\* a definition parse_and_run_norms can run: known type, norm_id and description
\* present, and a diagnostic compiler that returns a query
ValidDefinition(norm_data) ==
    /\ Runnable(norm_data)
    /\ generate_diagnostic_query(SelfOf(norm_data), NormParams(norm_data, run_id)).kind
          = "query"
    /\ generate_aggregation_query(SelfOf(norm_data), NormParams(norm_data, run_id)).kind
          = "query"

\* C4: when the invocation returns, every valid norm of the list has had its
\* diagnostic and its aggregation query executed, whatever the other norms are
\* (stated for the invocations in which no store call failed).
C4_ValidNormsAlwaysEvaluated ==
    (pc = "return" /\ faults = 0) =>
        \A i \in 1..Len(req.norms) :
            ValidDefinition(req.norms[i]) =>
                Positions(i, "diagnostic") # {} /\ Positions(i, "aggregation") # {}

\* C5: a norm whose diagnostic query the store rejected gets no aggregation query
\* and no persistence query in that run (stated for the rejections the query
\* text itself causes, with no failure of the store or the connection).
C5_RejectedDiagnosticSkipsAggregation ==
    \A k \in 1..Len(qlog) :
        (faults = 0 /\ qlog[k].step = "diagnostic" /\ ~qlog[k].accepted) =>
            /\ Positions(qlog[k].norm, "aggregation") = {}
            /\ Positions(qlog[k].norm, "persist_aggregation") = {}

\* C6: a norm whose diagnostic compiler returned no query gets no diagnostic and
\* no aggregation query in that run (stated for the runs in which no store call
\* failed).
C6_NoQuerySkipsBothSteps ==
    (pc \in EvaluationSteps /\ cur.diagnostic = "no query" /\ faults = 0) =>
        /\ Positions(idx, "diagnostic") = {}
        /\ Positions(idx, "aggregation") = {}

\* C7: every Diagnostic has a GENERATED_IN edge to exactly one AnalysisRun, also
\* after several runs re-evaluated it (stated for the store states reached with
\* no failed store call).
C7_ExactlyOneProvenanceEdge ==
    faults = 0 =>
      \A d \in db.diagnostics :
        Cardinality({e \in db.generatedIn : e[1] = d.nid}) = 1

\* C8: every Diagnostic has a compliance edge from each subject it was computed
\* from (the subjects its related_id names), for every rule variant (stated for
\* the store states reached with no failed store call).
C8_ComplianceEdgeFromEverySubject ==
    faults = 0 =>
      \A d \in db.diagnostics :
        \A i \in 1..Len(d.related_id) : <<d.related_id[i], d.nid>> \in db.complianceEdges

\* C9: for each norm processed in the run, of either run type: with grouping
\* properties declared and rows returned, the store holds exactly one
\* AggregationResult of that run per returned row; without grouping properties
\* it holds none (stated for the runs in which no store call failed).
C9_OneAggregationResultPerRow ==
    faults = 0 =>
      \A k \in 1..Len(norm_reports) :
        LET r == norm_reports[k]
            stored == {a \in db.aggResults : a.run_id = run_id /\ a.norm_id = r.norm_id}
        IN  IF GroupingProperties(req.norms[r.norm]) = <<>>
            THEN stored = {}
            ELSE (r.results # None /\ r.results.rows # {}) =>
                    \A row \in r.results.rows :
                        Cardinality({a \in stored : a.grouping_key = row.grouping_key}) = 1

WithoutFilters(params) ==
    [k \in DOMAIN params \ {"execution_filters"} |-> params[k]]

\* C10: when the filters of the norm compile to a predicate and the store is not
\* failing, the diagnostic step writes a Diagnostic for exactly the subjects
\* (or pairs) the unfiltered norm matches whose primary alias passes the filters.
C10_DiagnosticsOnlyForFilteredSubjects ==
    LET frag == build_filter_clause(Filters(cur.params))
        unfiltered == generate_diagnostic_query(cur.self, WithoutFilters(cur.params))
    IN  (/\ pc = StepAfter("diagnostic")
         /\ cur.diagnostic \in {"executed", "rejected"}
         /\ faults = 0
         /\ frag.clauses # <<>>
         /\ StoreAccepts(unfiltered))
        => cur.written =
              {r.related_id :
                 r \in {x \in DiagnosticRows(unfiltered) :
                          FragmentAdmits(frag, x.related_id[1], frag.params)}}

\* a datetime `between` filter on an inline property that names one bound only
OneBoundBetween(f) ==
    /\ Has(f, "property_name") /\ Has(f, "property_value")
    /\ Get(f, "property_operator", "") = "between"
    /\ Get(f, "property_data_type", "string") = "datetime"
    /\ ~Has(f, "property_value_end")

\* C11: a norm that carries a one-bound `between` filter is evaluated as the same
\* norm without that filter: when the invocation returns its diagnostic step has
\* written the Diagnostics of the remaining filters and its aggregation query
\* has been executed.
C11_OneBoundBetweenIsDropped ==
    (pc = "persist_aggregation" \/ (pc = "loop" /\ idx > Len(req.norms))) =>
        \A i \in 1..Len(req.norms) :
            LET filters == Filters(req.norms[i])
            IN  (/\ \E k \in 1..Len(filters) : OneBoundBetween(filters[k])
                 /\ \A k \in 1..Len(filters) :
                        OneBoundBetween(filters[k]) \/ ~FilterKeyError(filters[k]))
                => /\ Positions(i, "diagnostic") # {}
                   /\ Positions(i, "aggregation") # {}

\* a filter that compiles to no predicate: its operator is not one of its data type
Unsupported(f) == ~FilterKeyError(f) /\ FilterEntry(f, 1).clause = <<>>

RemoveAt(filters, k) == SubSeq(filters, 1, k - 1) \o SubSeq(filters, k + 1, Len(filters))

\* the subjects that pass the fragment compiled from a filter list
AdmittedBy(filters) ==
    {s \in Subjects :
        FragmentAdmits(build_filter_clause(filters), s, build_filter_clause(filters).params)}

\* C12: for the filter list of the norm being evaluated, removing a filter whose
\* operator/data-type combination is unsupported does not change the set of
\* subjects the compiled fragment admits, for inline and for node storage.
C12_UnsupportedFilterIsDropped ==
    (pc = "diagnostic"
     /\ \A k \in 1..Len(Filters(cur.params)) : ~FilterKeyError(Filters(cur.params)[k])) =>
        \A k \in 1..Len(Filters(cur.params)) :
            Unsupported(Filters(cur.params)[k]) =>
                AdmittedBy(Filters(cur.params)) = AdmittedBy(RemoveAt(Filters(cur.params), k))

\* count(ev) over the target events correlated to ctx
ActualCount(ctx, target_activity) ==
    Cardinality({ev \in WithLabel("Event", target_activity) : <<ev, ctx>> \in CORR})

\* C13: after the diagnostic step of an EventToEntityRelationship norm with
\* operator exists / not exists, every entity of the context type has a
\* Diagnostic with its actual_count and complies = (actual_count > 0) for exists,
\* (actual_count = 0) for not exists, whatever count the norm carries or omits.
C13_ExistenceIgnoresCount ==
    (/\ pc = StepAfter("diagnostic")
     /\ cur.self.norm_type = "EventToEntityRelationshipNorm"
     /\ Get(cur.params, "operator", "") \in {"exists", "not exists"}
     /\ Filters(cur.params) = <<>>) =>
        \A ctx \in WithLabel("Entity", cur.params.context_entity_type) :
            \E d \in db.diagnostics :
                /\ d.norm_id = cur.self.norm_id
                /\ d.related_id = <<ctx>>
                /\ d.actual_count = {ActualCount(ctx, cur.params.target_activity)}
                /\ d.complies = IF cur.params.operator = "exists"
                                THEN ActualCount(ctx, cur.params.target_activity) > 0
                                ELSE ActualCount(ctx, cur.params.target_activity) = 0

\* C14: after the diagnostic step of an ActivityDirectlyFollows norm, every event
\* with activity A has a Diagnostic whose complies is (a DF edge to an event with
\* activity B exists) when forbidden is false, and the negation when it is true.
C14_DirectlyFollowsPolarity ==
    (/\ pc = StepAfter("diagnostic")
     /\ cur.self.norm_type = "ActivityDirectlyFollowsNorm"
     /\ Filters(cur.params) = <<>>) =>
        \A ev_a \in WithLabel("Event", cur.params.activity_a) :
            \E d \in db.diagnostics :
                /\ d.norm_id = cur.self.norm_id
                /\ d.related_id = <<ev_a>>
                /\ d.complies =
                      ((\E ev_b \in WithLabel("Event", cur.params.activity_b) :
                            <<ev_a, ev_b>> \in DF)
                       = ~Get(cur.params, "forbidden", FALSE))

\* the pairs (event with activity A, event with activity B) with A.time < B.time
TimedPairs(activity_a, activity_b) ==
    {ab \in WithLabel("Event", activity_a) \X WithLabel("Event", activity_b) :
        \E ta \in Graph[ab[1]].time : \E tb \in Graph[ab[2]].time : ta < tb}

\* C15: after the diagnostic step of an AverageTimeBetweenActivities norm the
\* Diagnostics of the norm are exactly one per pair (A event, B event) with
\* A.time < B.time, with duration_seconds the elapsed time and complies =
\* (duration < threshold) for 'less than', (duration > threshold) otherwise.
C15_DurationAgainstThreshold ==
    (/\ pc = StepAfter("diagnostic")
     /\ cur.self.norm_type = "AverageTimeBetweenActivitiesNorm"
     /\ Filters(cur.params) = <<>>) =>
        /\ {d.related_id : d \in db.diagnostics} =
              {<<ab[1], ab[2]>> : ab \in TimedPairs(cur.params.activity_a,
                                                    cur.params.activity_b)}
        /\ \A d \in db.diagnostics :
              \E ta \in Graph[d.related_id[1]].time : \E tb \in Graph[d.related_id[2]].time :
                 /\ d.norm_id = cur.self.norm_id
                 /\ d.duration_seconds = {tb - ta}
                 /\ d.complies =
                       IF Get(cur.params, "threshold_condition", "less than") = "less than"
                       THEN tb - ta < cur.params.threshold_seconds
                       ELSE tb - ta > cur.params.threshold_seconds
        /\ \A d1, d2 \in db.diagnostics : d1.related_id = d2.related_id => d1 = d2

\* threshold 3 with 'less than': a pair 2 apart complies, a pair 5 apart does not
C15_Witness ==
    /\ pc = StepAfter("diagnostic")
    /\ cur.self.norm_type = "AverageTimeBetweenActivitiesNorm"
    /\ Filters(cur.params) = <<>>
    /\ cur.params.threshold_seconds = 3
    /\ Get(cur.params, "threshold_condition", "less than") = "less than"
    /\ \E d1, d2 \in db.diagnostics :
          /\ d1.duration_seconds = {2} /\ d1.complies
          /\ d2.duration_seconds = {5} /\ ~d2.complies

\* the values a subject holds for a property under a storage strategy
LogicalValue(n, prop, storage) ==
    IF storage = "node"
    THEN {a[2] : a \in {b \in Graph[n].attrs : b[1] = prop}}
    ELSE {a[2] : a \in {b \in Graph[n].props : b[1] = prop}}

\* the verdict for a set of held values: non-compliant when it is empty
Verdict(held, operator, value) ==
    \E v \in held :
        CASE operator = "==" -> v = value
          [] operator = "!=" -> v # value
          [] operator = ">"  -> v > value
          [] operator = "<"  -> v < value
          [] operator = ">=" -> v >= value
          [] operator = "<=" -> v <= value
          [] operator = "in" -> v \in value
          [] operator = "not in" -> v \notin value

\* C16: after the diagnostic step of an Event/EntityPropertyValue norm without
\* execution filters, every subject of the target has one Diagnostic whose
\* complies is the comparison applied to the value it holds under the storage
\* strategy the evaluation reads, and false when it holds none: the verdict is
\* a function of the logical value, the operator and the compared value alone.
C16_VerdictIndependentOfStorage ==
    (/\ pc = StepAfter("diagnostic")
     /\ cur.self.norm_type \in {"EventPropertyValueNorm", "EntityPropertyValueNorm"}
     /\ Filters(cur.params) = <<>>
     /\ Has(cur.params, "value")) =>
        LET subjects == WithLabel(IF cur.self.norm_type = "EventPropertyValueNorm"
                                  THEN "Event" ELSE "Entity", cur.params.target_name)
            storage == Get(cur.params, "attributeStorage", "property")
        IN  /\ {d.related_id : d \in db.diagnostics} = {<<n>> : n \in subjects}
            /\ \A d \in db.diagnostics :
                  d.complies = Verdict(LogicalValue(d.related_id[1],
                                                    cur.params.property_name, storage),
                                       cur.params.operator, cur.params.value)
            /\ \A d1, d2 \in db.diagnostics : d1.related_id = d2.related_id => d1 = d2

\* amount >= 3 read from attribute nodes: the Order holding 3 on an attribute
\* node complies, the Order holding it inline only has no value and does not
C16_Witness ==
    /\ pc = StepAfter("diagnostic")
    /\ cur.self.norm_type = "EntityPropertyValueNorm"
    /\ cur.params.property_name = "amount"
    /\ cur.params.operator = ">=" /\ cur.params.value = 3
    /\ Get(cur.params, "attributeStorage", "property") = "node"
    /\ \E d1, d2 \in db.diagnostics :
          /\ d1.related_id = <<"o2">> /\ d1.complies
          /\ d2.related_id = <<"o1">> /\ ~d2.complies

\* C17: the run node of the invocation carries the run label of the effective
\* config (the defaults overridden by the request's config), so that the
\* provenance match of an accepted diagnostic query, which reads that label
\* from the effective config, finds it: every Diagnostic written by the
\* diagnostic step is linked to the run.
C17_NamesFromEffectiveConfig ==
    (pc = StepAfter("diagnostic") /\ cur.diagnostic = "executed") =>
        /\ \A run \in db.runs :
              run.run_id = run_id => run.label = config.analysis_run_node_label
        /\ \A d \in db.diagnostics : <<d.nid, run_id>> \in db.generatedIn

\* C18: an aggregation query compiled for zero grouping properties and executed
\* returns exactly one row, keyed 'Overall', whatever Diagnostics the norm has,
\* none included.
C18_OverallRowAlways ==
    (/\ pc = StepAfter("aggregation")
     /\ cur.agg_results # None
     /\ GroupingProperties(cur.params) = <<>>) =>
        /\ Cardinality(cur.agg_results.rows) = 1
        /\ \A r \in cur.agg_results.rows :
              r.grouping_key = [list |-> FALSE, parts |-> <<"Overall">>]

\* the subjects the aggregation of the current norm groups: the sources of the
\* compliance edges of its Diagnostics that carry the measurement, if one is required
GroupedSubjects ==
    {e[1] : e \in {f \in db.complianceEdges :
        \E d \in db.diagnostics :
            /\ d.nid = f[2] /\ d.norm_id = cur.self.norm_id
            /\ cur.self.norm_type = "AverageTimeBetweenActivitiesNorm" => d.duration_seconds # {}
            /\ cur.self.norm_type = "EventToEntityRelationshipNorm" => d.actual_count # {}}}

\* the string form of the value subject s holds for a declared grouping
\* property under its storage strategy, 'N/A' when it holds none
KeyComponent(s, prop_info) ==
    LET held == IF "attributeStorage" \in DOMAIN prop_info
                   /\ prop_info.attributeStorage = "node"
                THEN {a \in Graph[s].attrs : a[1] = prop_info.name}
                ELSE {a \in Graph[s].props : a[1] = prop_info.name}
    IN  IF held = {} THEN "N/A" ELSE ToString((CHOOSE a \in held : TRUE)[2])

\* C19: the rows an aggregation with N >= 1 grouping properties returns are keyed
\* by N-tuples, and the keys are exactly those of the grouped subjects: the i-th
\* component is the string form of the subject's i-th declared property under
\* its storage strategy, 'N/A' where the subject does not hold it.
C19_GroupingKeyTuples ==
    (/\ pc = StepAfter("aggregation")
     /\ cur.agg_results # None
     /\ GroupingProperties(cur.params) # <<>>) =>
        LET grouping == GroupingProperties(cur.params)
        IN  /\ \A r \in cur.agg_results.rows :
                  /\ r.grouping_key.list
                  /\ Len(r.grouping_key.parts) = Len(grouping)
            /\ {r.grouping_key.parts : r \in cur.agg_results.rows} =
                  {[i \in 1..Len(grouping) |-> KeyComponent(s, grouping[i])] :
                      s \in GroupedSubjects}

\* Orders grouped by inline prio, then amount on an attribute node: the Order
\* with inline amount gives <<"1", "N/A">>, the other <<"2", "3">>
C19_Witness ==
    /\ pc = StepAfter("aggregation")
    /\ cur.agg_results # None
    /\ GroupingProperties(cur.params) =
          <<[name |-> "prio"], [name |-> "amount", attributeStorage |-> "node"]>>
    /\ {r.grouping_key.parts : r \in cur.agg_results.rows} = {<<"1", "N/A">>, <<"2", "3">>}

\* the Diagnostics of the current norm the aggregation is about: those carrying
\* the measurement, where the variant requires one
MeasuredDiagnostics ==
    {d \in db.diagnostics :
        /\ d.norm_id = cur.self.norm_id
        /\ cur.self.norm_type = "AverageTimeBetweenActivitiesNorm" => d.duration_seconds # {}
        /\ cur.self.norm_type = "EventToEntityRelationshipNorm" => d.actual_count # {}}

\* C20: every row an aggregation without grouping properties returns has total =
\* the number of Diagnostics of the norm and compliant = the number of those
\* with complies = true, each Diagnostic counted once.
C20_EachDiagnosticCountedOnce ==
    (/\ pc = StepAfter("aggregation")
     /\ cur.agg_results # None
     /\ GroupingProperties(cur.params) = <<>>) =>
        \A r \in cur.agg_results.rows :
            /\ r.total = Cardinality(MeasuredDiagnostics)
            /\ r.compliant = Cardinality({d \in MeasuredDiagnostics : d.complies})

\* C21: when an exception escaped the norm loop, the invocation returns with
\* status 'failed' and with the reports of the norms processed before the failure.
C21_PartialReportsOnFailure ==
    (pc = "return" /\ hist.escaped) =>
        /\ status = "failed"
        /\ reports = norm_reports

\* C22: an invocation that obtained the driver holds it open until the finally
\* block and has closed it when it returns, whether the loop completed, an
\* exception escaped it, or the run-creation or status-update query failed.
C22_DriverClosedOnEveryExit ==
    /\ pc = "return" => driver = "closed"
    /\ pc \in {"create_run", "persist_norms", "loop", "finally"} \cup EvaluationSteps =>
          driver = "open"
    /\ pc = "idle" => driver = "none"

\* an invocation returning after an exception escaped the loop and the status
\* update was rejected
C22_Witness ==
    /\ pc = "return"
    /\ driver = "closed"
    /\ hist.escaped
    /\ qlog[Len(qlog)] = Logged(0, "update_status", FALSE)

\* the operators the compiler has a predicate for, by storage and data type
HasPredicate(f) ==
    IF "attributeStorage" \in DOMAIN f /\ f.attributeStorage = "node"
    THEN f.property_operator \in {"==", "!=", ">", "<", ">=", "<=", "in", "not in"}
    ELSE IF "property_data_type" \in DOMAIN f /\ f.property_data_type = "datetime"
    THEN f.property_operator \in {"before", "after", "between"}
    ELSE f.property_operator \in {"==", "!=", ">", "<", ">=", "<=", "in", "not in"}

\* the positions of the filters of a list that have a predicate, in list order
RECURSIVE PredicatePositions(_, _)
PredicatePositions(filters, k) ==
    IF k > Len(filters) THEN <<>>
    ELSE (IF HasPredicate(filters[k]) THEN <<k>> ELSE <<>>)
            \o PredicatePositions(filters, k + 1)

\* C23: for a filter list the compiler returns on, the fragment is empty for the
\* empty list and otherwise holds one predicate per filter that has one, in
\* list order and on that filter's property; the names the predicates bind are
\* pairwise distinct across the list (two distinct names for a `between`), are
\* exactly the keys of the binding map and are bound to the filter's values;
\* every string/number predicate is value-is-present AND comparison.
C23_FilterConjunctionDistinctNames ==
    (/\ pc = StepAfter("diagnostic")
     /\ cur.diagnostic # "no query"
     /\ ~build_filter_clause(Filters(cur.params)).raised) =>
        LET filters == Filters(cur.params)
            frag == build_filter_clause(filters)
            at == PredicatePositions(filters, 1)
        IN  /\ filters = <<>> => frag.clauses = <<>> /\ frag.params = <<>>
            /\ Len(frag.clauses) = Len(at)
            /\ \A k \in 1..Len(at) :
                  LET c == frag.clauses[k]
                      f == filters[at[k]]
                  IN  /\ c.prop = f.property_name
                      /\ Len(c.pnames) = IF c.shape = "between" THEN 2 ELSE 1
                      /\ c.shape = "between" => c.pnames[1] # c.pnames[2]
                      /\ frag.params[c.pnames[1]] = f.property_value
                      /\ c.shape = "between" =>
                            frag.params[c.pnames[2]] = f.property_value_end
                      /\ ("property_data_type" \notin DOMAIN f
                            \/ f.property_data_type # "datetime"
                            \/ c.storage = "node") => c.shape = "notnull_cmp"
            /\ \A j, k \in 1..Len(at) :
                  j # k => \A m \in 1..Len(frag.clauses[j].pnames) :
                              \A n \in 1..Len(frag.clauses[k].pnames) :
                                 frag.clauses[j].pnames[m] # frag.clauses[k].pnames[n]
            /\ DOMAIN frag.params =
                  UNION {{frag.clauses[k].pnames[m] : m \in 1..Len(frag.clauses[k].pnames)} :
                            k \in 1..Len(at)}

\* the same property filtered twice, inline and on its attribute node: two
\* predicates with two bound names
C23_Witness ==
    /\ pc = StepAfter("diagnostic")
    /\ cur.diagnostic # "no query"
    /\ Filters(cur.params) = <<PrioIs1, PrioNodeIs2>>
    /\ Len(build_filter_clause(Filters(cur.params)).clauses) = 2
    /\ Cardinality(DOMAIN build_filter_clause(Filters(cur.params)).params) = 2

\* C24: every parameter name the text of a compiled diagnostic query references
\* is a key of the binding map returned with it, so the store does not reject an
\* issued diagnostic query whose text parses.
C24_ReferencedNamesAreBound ==
    (pc = StepAfter("diagnostic") /\ cur.diagnostic \in {"executed", "rejected"}) =>
        \A q \in {generate_diagnostic_query(cur.self, cur.params)} :
            q.refs \subseteq DOMAIN q.params

\* the compliance edges of the Diagnostics in the store that carry the norm_id
\* of the current norm (and its measurement, where the variant has one),
\* whichever run wrote them
NormEdges ==
    {f \in db.complianceEdges :
        \E d \in db.diagnostics :
            /\ d.nid = f[2] /\ d.norm_id = cur.self.norm_id
            /\ cur.self.norm_type = "AverageTimeBetweenActivitiesNorm" => d.duration_seconds # {}
            /\ cur.self.norm_type = "EventToEntityRelationshipNorm" => d.actual_count # {}}

\* the grouping key of subject s
GroupKeyOf(s, grouping) ==
    IF grouping = <<>> THEN [list |-> FALSE, parts |-> <<"Overall">>]
    ELSE [list |-> TRUE, parts |-> [i \in 1..Len(grouping) |-> KeyComponent(s, grouping[i])]]

\* C25: the rows of the aggregation executed for a norm reduce every Diagnostic
\* in the store that carries the norm_id, whichever run wrote it: the keys are
\* those of the subjects linked to these Diagnostics, and each row counts the
\* links of its key and those among them whose Diagnostic complies.
C25_AggregationScopedByNormIdOnly ==
    (pc = StepAfter("aggregation") /\ cur.agg_results # None) =>
        LET grouping == GroupingProperties(cur.params)
            Complying(f) == \E d \in db.diagnostics : d.nid = f[2] /\ d.complies
        IN  /\ {r.grouping_key : r \in cur.agg_results.rows} =
                  {GroupKeyOf(f[1], grouping) : f \in NormEdges}
            /\ \A r \in cur.agg_results.rows :
                  /\ r.total = Cardinality({f \in NormEdges :
                                   GroupKeyOf(f[1], grouping) = r.grouping_key})
                  /\ r.compliant = Cardinality({f \in NormEdges :
                                   /\ GroupKeyOf(f[1], grouping) = r.grouping_key
                                   /\ Complying(f)})

\* a second run whose diagnostic query was rejected and wrote nothing, and whose
\* aggregation returns rows all the same: none of the Diagnostics of the norm is
\* linked to that run
C25_Witness ==
    /\ pc = StepAfter("aggregation")
    /\ cur.agg_results # None
    /\ invocations = 2
    /\ cur.diagnostic = "rejected"
    /\ cur.written = {}
    /\ cur.agg_results.rows # {}
    /\ \A d \in db.diagnostics :
          d.norm_id = cur.self.norm_id => <<d.nid, run_id>> \notin db.generatedIn

====
